---- MODULE Spec2Model ----
(***************************************************************************)
(* Model of run.py, the preregistered backtest harness.                    *)
(*                                                                         *)
(* Numbers.  The program computes in binary floating point.  The model     *)
(* computes in fixed point:                                                *)
(*   - a return, a cost and a daily P&L are integers in basis points       *)
(*     (1 = 1e-4), so 0.0004 is 4 and 0.01 is 100;                         *)
(*   - a price is an integer in cents, so 100.0 is 10000;                  *)
(*   - an equity is an integer in basis points, so 1.0 is 10000;           *)
(*   - a Sharpe ratio and a gate threshold are integers in hundredths,     *)
(*     so 0.50 is 50;                                                      *)
(*   - a z-score is an integer in hundredths.                              *)
(* Every division rounds, as the floating point division does, only more   *)
(* coarsely.                                                               *)
(*                                                                         *)
(* Library code.  random.Random is modelled by a small linear congruential *)
(* generator, and sha256 by a collision-free symbolic hash: the hash of a  *)
(* content is a record holding that content.  A file's content is the      *)
(* value json.dumps serialises.                                            *)
(***************************************************************************)
EXTENDS Integers, Sequences, FiniteSets, TLC

(***************************************************************************)
(* Bounds of the model.                                                    *)
(***************************************************************************)
\* seeds 0..MaxSeed are given on the command line
MaxSeed == 1
\* number of run_once executions against the one output directory
MaxRuns == 2

(***************************************************************************)
(* Program constants.                                                      *)
(***************************************************************************)
\* Prereg.n_days
n_days == 252
\* Prereg.fee_bps
fee_bps == 1
\* Prereg.slippage_bps
slippage_bps == 2
\* Prereg.entry_z = 1.0, in hundredths
entry_z == 100
\* Prereg.baseline_sharpe_min = 0.50, in hundredths
baseline_sharpe_min == 50
\* Prereg.delta_min = 0.30, in hundredths
delta_min == 30
\* Prereg.neg_sharpe_max = 0.25, in hundredths
neg_sharpe_max == 25
\* win in backtest
win == 20
\* the starting price 100.0 of gen_prices, in cents
StartPrice == 10000
\* the mean 0.0004 of the daily return drawn by gen_prices, in basis points
GaussMu == 4
\* the standard deviation 0.01 of the daily return, in basis points
GaussSigma == 100
\* 1.0 in basis points: the unit of returns, costs, P&L and equity
One == 10000
\* 252**0.5 = 15.87..., in hundredths
Sqrt252 == 1587
\* the floor 1e-9 of the window's standard deviation: dividing a difference in
\* tenths of a basis point by it gives this many hundredths
InvSdFloor == 1000000
\* the exit status of a run whose gates did not all pass
ExitGateFailed == 2

Conditions == <<"baseline", "ablation", "negative_control">>

Seeds == 0..MaxSeed

(***************************************************************************)
(* Arithmetic helpers.                                                     *)
(***************************************************************************)
Max(a, b) == IF a >= b THEN a ELSE b

\* division rounding toward zero
Div(a, b) == IF a >= 0 THEN a \div b ELSE -((-a) \div b)

RECURSIVE SqrtSearch(_, _, _)
SqrtSearch(x, lo, hi) ==
    IF lo >= hi THEN lo
    ELSE LET mid == (lo + hi + 1) \div 2
         IN  IF mid * mid <= x THEN SqrtSearch(x, mid, hi)
                               ELSE SqrtSearch(x, lo, mid - 1)

\* x**0.5, rounded down
Sqrt(x) == SqrtSearch(x, 0, 46340)

\* sum(s[lo..hi]), by halves so that the evaluation stays shallow
RECURSIVE SumRange(_, _, _)
SumRange(s, lo, hi) ==
    IF lo > hi THEN 0
    ELSE IF lo = hi THEN s[lo]
    ELSE LET mid == (lo + hi) \div 2
         IN  SumRange(s, lo, mid) + SumRange(s, mid + 1, hi)

\* sum(s)
Sum(s) == SumRange(s, 1, Len(s))

\* sum((x-mu)**2 for x in s), with x - mu in tenths of a basis point
SumSqDev(s, mu10) ==
    Sum([k \in 1..Len(s) |-> (10 * s[k] - mu10) * (10 * s[k] - mu10)])

(***************************************************************************)
(* random.Random: a linear congruential generator.                         *)
(***************************************************************************)
\* one step of the generator
RngNext(state) == (75 * state + 74) % 65537

\* random.Random(seed): the state after seeding
Random(seed) == RngNext(RngNext((seed * 7919 + 104729) % 65537))

\* rng.gauss(0.0004, 0.01): the value drawn in state `state` (after one step),
\* one of seven equally likely values with mean GaussMu and standard
\* deviation GaussSigma
Gauss(state) == GaussMu + (((state \div 16) % 7) - 3) * (GaussSigma \div 2)

\* rng.shuffle(x) for a list of three: the Fisher-Yates walk of random.shuffle,
\* i = 2 then i = 1, drawing j below i + 1 and swapping x[i] and x[j]
Swap(x, i, j) == [x EXCEPT ![i] = x[j], ![j] = x[i]]

Shuffle(state, x) ==
    LET s1 == RngNext(state)
        j1 == (s1 \div 16) % 3
        x1 == Swap(x, 3, j1 + 1)
        s2 == RngNext(s1)
        j2 == (s2 \div 16) % 2
        x2 == Swap(x1, 2, j2 + 1)
    IN  [rng |-> s2, list |-> x2]

(***************************************************************************)
(* gen_prices, returns, sharpe.                                            *)
(***************************************************************************)
\* one iteration of the loop of gen_prices; st.i counts the iterations done
GenPricesStep(st) ==
    LET s1 == RngNext(st.rng)
        r  == Gauss(s1)
        p1 == (st.p * (One + r)) \div One
    IN  [i |-> st.i + 1, rng |-> s1, p |-> p1, out |-> Append(st.out, p1)]

\* the loop of gen_prices, run until hi iterations are done; the iterations
\* are split in halves so that the evaluation stays shallow
RECURSIVE GenPricesLoop(_, _)
GenPricesLoop(st, hi) ==
    IF st.i >= hi THEN st
    ELSE IF st.i + 1 = hi THEN GenPricesStep(st)
    ELSE GenPricesLoop(GenPricesLoop(st, (st.i + hi) \div 2), hi)

\* gen_prices(rng, n)
gen_prices(state, n) ==
    GenPricesLoop([i |-> 0, rng |-> state, p |-> StartPrice, out |-> <<StartPrice>>],
                  n - 1).out

\* returns(prices)
returns(prices) ==
    [i \in 1..(Len(prices) - 1) |-> (prices[i + 1] * One) \div prices[i] - One]

\* sharpe(rets), in hundredths
sharpe(rets) ==
    IF Len(rets) = 0 THEN 0
    ELSE LET mu10 == Div(Sum(rets) * 10, Len(rets))
             var  == SumSqDev(rets, mu10) \div Max(1, Len(rets) - 1)
             sd   == Sqrt(var)
         IN  IF sd = 0 THEN 0 ELSE Div(mu10 * Sqrt252, sd)

(***************************************************************************)
(* backtest.                                                               *)
(***************************************************************************)
\* rets[start:i+1] for the day with index i (from 0)
WindowStart(i) == Max(0, i - win)

Window(rets, i) == SubSeq(rets, WindowStart(i) + 1, i + 1)

\* the z-score of the day's return r against the window, in hundredths
ZScore(window, r) ==
    LET mu10 == Div(Sum(window) * 10, Len(window))
        var  == IF Len(window) > 1
                THEN SumSqDev(window, mu10) \div Max(1, Len(window) - 1)
                ELSE 0
    IN  IF var > 0 THEN Div((10 * r - mu10) * 100, Sqrt(var))
                   ELSE (10 * r - mu10) * InvSdFloor

\* NewPos with a negative control that takes a position on the signal
NewPosNegativeTrades(mode, z, pos) ==
    IF mode = "ablation" THEN 1
    ELSE IF z > entry_z THEN 1
    ELSE IF z < -entry_z THEN -1
    ELSE 0

\* the position taken on a day
NewPos(mode, z, pos) ==
    IF mode = "baseline"
    THEN IF z > entry_z THEN 1
         ELSE IF z < -entry_z THEN -1
         ELSE 0
    ELSE IF mode = "ablation" THEN 1
    ELSE IF mode = "negative_control" THEN 0
    ELSE pos

\* the trading cost of a day, in basis points
Cost(traded) == IF traded THEN fee_bps + slippage_bps ELSE 0

\* one iteration of the loop over the days: st.i is the day's index (from 0)
DayStep(rets, mode, st) ==
    LET r       == rets[st.i + 1]
        window  == Window(rets, st.i)
        z       == ZScore(window, r)
        new_pos == NewPos(mode, z, st.pos)
        traded  == new_pos # st.pos
        cost    == Cost(traded)
    IN  [i      |-> st.i + 1,
         pos    |-> new_pos,
         poss   |-> Append(st.poss, new_pos),
         costs  |-> Append(st.costs, cost),
         wstart |-> Append(st.wstart, WindowStart(st.i)),
         wlen   |-> Append(st.wlen, Len(window)),
         pnl    |-> Append(st.pnl, new_pos * r - cost)]

\* the loop over the days, run until the day with index hi (from 0) is
\* reached; the days are split in halves so that the evaluation stays shallow
RECURSIVE DayLoop(_, _, _, _)
DayLoop(rets, mode, st, hi) ==
    IF st.i >= hi THEN st
    ELSE IF st.i + 1 = hi THEN DayStep(rets, mode, st)
    ELSE DayLoop(rets, mode, DayLoop(rets, mode, st, (st.i + hi) \div 2), hi)

\* one iteration of the loop over pnl: eq *= (1.0 + x)
EquityStep(pnl, st) ==
    [i |-> st.i + 1, eq |-> (st.eq * (One + pnl[st.i + 1])) \div One]

\* the loop over pnl, run until hi iterations are done, by halves
RECURSIVE EquityLoop(_, _, _)
EquityLoop(pnl, st, hi) ==
    IF st.i >= hi THEN st
    ELSE IF st.i + 1 = hi THEN EquityStep(pnl, st)
    ELSE EquityLoop(pnl, EquityLoop(pnl, st, (st.i + hi) \div 2), hi)

\* backtest(pr, rng, mode): the dict returned (result) and the locals (trace)
backtest(state, mode) ==
    LET prices == gen_prices(state, n_days)
        rets   == returns(prices)
        st0    == [i |-> 0, pos |-> 0, poss |-> <<>>, costs |-> <<>>,
                   wstart |-> <<>>, wlen |-> <<>>, pnl |-> <<>>]
        st     == DayLoop(rets, mode, st0, Len(rets))
        pnl    == st.pnl
    IN  [result |-> [final_equity    |-> EquityLoop(pnl, [i |-> 0, eq |-> One], Len(pnl)).eq,
                     sharpe          |-> sharpe(pnl),
                     n_trades_approx |-> Cardinality({k \in 2..Len(pnl) : pnl[k] # pnl[k - 1]})],
         trace  |-> [rng0 |-> state, prices |-> prices, rets |-> rets,
                     poss |-> st.poss, costs |-> st.costs, pnl |-> pnl,
                     wstart |-> st.wstart, wlen |-> st.wlen]]

(***************************************************************************)
(* canon, sha256_hex, the files of the output directory.                   *)
(***************************************************************************)
\* canon(obj): the canonical serialisation, which is the same for two objects
\* exactly when they hold the same keys and values
canon(obj) == [json |-> obj]

\* sha256_hex(b), collision-free
sha256_hex(b) == [sha256 |-> b]

\* h[:12], the first twelve characters of a digest, taken to identify it
Hex12(h) == [hex12 |-> h.sha256]

Files == {"prereg.json", "blind_map.json", "results.json",
          "artifacts_manifest.json", "ledger.ndjson"}

\* write_json(path, obj): a file that exists holds one content
write_json(d, name, obj) == [d EXCEPT ![name] = <<obj>>]

\* file_sha256(path)
file_sha256(d, name) == sha256_hex(d[name])

\* path.exists()
Exists(d, name) == d[name] # <<>>

\* AppendLine with the ledger opened for writing: the earlier lines are lost
AppendLineTruncating(lines, line) == <<line>>

\* what open("a") and f.write(line) do to the lines of the ledger
AppendLine(lines, line) == Append(lines, line)

\* append_ledger(out_dir, entry): entry holds no "ts", so the time is set
append_ledger(d, entry, now) ==
    [d EXCEPT !["ledger.ndjson"] = AppendLine(@, canon(entry @@ [ts |-> now]))]

(***************************************************************************)
(* prereg.                                                                 *)
(***************************************************************************)
\* Prereg().__dict__
Params ==
    [n_days |-> n_days, fee_bps |-> fee_bps, slippage_bps |-> slippage_bps,
     entry_z |-> entry_z, baseline_sharpe_min |-> baseline_sharpe_min,
     delta_min |-> delta_min, neg_sharpe_max |-> neg_sharpe_max]

\* the object that prereg hashes into AEQ
PreregObj(seed) ==
    [seed |-> seed, params |-> Params, conditions |-> Conditions,
     metric |-> "sharpe",
     notes |-> "Tiny deterministic backtest harness. Stdlib only."]

\* prereg(seed)
prereg(seed) ==
    LET obj == PreregObj(seed)
        aeq == Hex12(sha256_hex(canon(obj)))
        cid == Hex12(sha256_hex(<<aeq, seed>>))
    IN  obj @@ [AEQ |-> aeq, CID |-> cid]

(***************************************************************************)
(* The pieces of run_once.                                                 *)
(***************************************************************************)
\* the labels before blinding
IdentityLabels == [c \in {Conditions[k] : k \in 1..3} |-> c]

BlindLabel(idx) == <<"C1", "C2", "C3">>[idx]

\* {cond: f"C{idx+1}" for idx, cond in enumerate(conds)}
BlindLabels(conds) ==
    [c \in {conds[k] : k \in 1..3} |-> BlindLabel(CHOOSE k \in 1..3 : conds[k] = c)]

\* ConditionRng with the sub-seed drawn from the generator of the run
ConditionRngFromRun(rng, seed, k) == Random(RngNext(rng) + k)

\* ConditionRng without the offset of the condition
ConditionRngNoOffset(rng, seed, k) == Random(seed)

\* the generator handed to the k-th backtest: random.Random(seed + k); rng is
\* the generator of the run, which the backtests do not use
ConditionRng(rng, seed, k) == Random(seed + k)

\* Gates with a strict comparison at each threshold
GatesStrict(base_s, ablt_s, neg_s) ==
    LET delta == base_s - ablt_s
        gates ==
          [baseline_sharpe_min |->
               [value |-> base_s, min |-> baseline_sharpe_min,
                pass |-> base_s > baseline_sharpe_min],
           delta_min |->
               [value |-> delta, min |-> delta_min, pass |-> delta > delta_min],
           neg_sharpe_max |->
               [value |-> neg_s, max |-> neg_sharpe_max,
                pass |-> neg_s < neg_sharpe_max]]
    IN  [gates |-> gates,
         overall |-> \A g \in DOMAIN gates : gates[g].pass]

\* the gates and overall, from the three Sharpe values
Gates(base_s, ablt_s, neg_s) ==
    LET delta == base_s - ablt_s
        gates ==
          [baseline_sharpe_min |->
               [value |-> base_s, min |-> baseline_sharpe_min,
                pass |-> base_s >= baseline_sharpe_min],
           delta_min |->
               [value |-> delta, min |-> delta_min, pass |-> delta >= delta_min],
           neg_sharpe_max |->
               [value |-> neg_s, max |-> neg_sharpe_max,
                pass |-> neg_s <= neg_sharpe_max]]
    IN  [gates |-> gates,
         overall |-> \A g \in DOMAIN gates : gates[g].pass]

DeltaKey == "delta_sharpe(baseline-ablation)"

\* the metrics of results: the three results under their labels, and the delta
Metrics(lab, base, ablt, neg) ==
    [k \in {lab["baseline"], lab["ablation"], lab["negative_control"], DeltaKey} |->
        IF k = DeltaKey THEN [delta |-> base.sharpe - ablt.sharpe]
        ELSE IF k = lab["negative_control"] THEN neg
        ELSE IF k = lab["ablation"] THEN ablt
        ELSE base]

\* the names the manifest lists
ManifestNames(blnd) ==
    {"prereg.json", "results.json", "ledger.ndjson"}
        \cup (IF blnd THEN {"blind_map.json"} ELSE {})

\* ExitStatus with the two statuses exchanged
ExitStatusSwapped(overall) == IF overall THEN ExitGateFailed ELSE 0

\* return 0 if overall else 2
ExitStatus(overall) == IF overall THEN 0 ELSE ExitGateFailed

(***************************************************************************)
(* The state: the output directory, and one run_once at a time.            *)
(***************************************************************************)
VARIABLES
    disk,       \* the files of the output directory: name -> <<>> or <<content>>,
                \* and for the ledger its lines
    runs,       \* the executions of run_once started so far; the time of a run
    pc,         \* where run_once is
    seed, blind, reveal,   \* the arguments of run_once
    rng,        \* the generator of the run
    pr_blob,    \* <<>> or <<the prereg object>>
    labels,     \* condition -> label
    res,        \* condition -> <<>> or <<what backtest returned>>
    bt,         \* condition -> <<>> or <<the locals of that backtest>>
    gen_calls,  \* the calls of gen_prices in this run
    results,    \* <<>> or <<the results object>>
    stdout,     \* what the run printed
    ret,        \* <<>> or <<what run_once returned>>
    ledger0,    \* the lines of the ledger when the run started
    prev        \* <<>> or <<the previous completed run: its seed, blind flag,
                \* labels, results and exit status>>

vars == <<disk, runs, pc, seed, blind, reveal, rng, pr_blob, labels, res, bt,
          gen_calls, results, stdout, ret, ledger0, prev>>

CondSet == {Conditions[k] : k \in 1..3}

Init ==
    /\ disk = [f \in Files |-> <<>>]
    /\ runs = 0
    /\ pc = "idle"
    /\ seed = 0
    /\ blind = FALSE
    /\ reveal = FALSE
    /\ rng = 0
    /\ pr_blob = <<>>
    /\ labels = IdentityLabels
    /\ res = [c \in CondSet |-> <<>>]
    /\ bt = [c \in CondSet |-> <<>>]
    /\ gen_calls = 0
    /\ results = <<>>
    /\ stdout = <<>>
    /\ ret = <<>>
    /\ ledger0 = <<>>
    /\ prev = <<>>

\* main calls run_once(out, seed, blind, reveal): rng and pr_blob are set
Start(s, b, r) ==
    /\ pc \in {"idle", "done"}
    /\ runs < MaxRuns
    /\ runs' = runs + 1
    /\ seed' = s
    /\ blind' = b
    /\ reveal' = r
    /\ rng' = Random(s)
    /\ pr_blob' = <<prereg(s)>>
    /\ labels' = IdentityLabels
    /\ res' = [c \in CondSet |-> <<>>]
    /\ bt' = [c \in CondSet |-> <<>>]
    /\ gen_calls' = 0
    /\ results' = <<>>
    /\ stdout' = <<>>
    /\ ret' = <<>>
    /\ ledger0' = disk["ledger.ndjson"]
    /\ prev' = IF pc = "done"
               THEN <<[seed |-> seed, blind |-> blind, labels |-> labels,
                       results |-> results[1], ret |-> ret[1]]>>
               ELSE prev
    /\ pc' = "write_prereg"
    /\ UNCHANGED disk

\* write_json(prereg_path, pr_blob)
WritePrereg ==
    /\ pc = "write_prereg"
    /\ disk' = write_json(disk, "prereg.json", pr_blob[1])
    /\ pc' = "ledger_prereg"
    /\ UNCHANGED <<runs, seed, blind, reveal, rng, pr_blob, labels, res, bt,
                   gen_calls, results, stdout, ret, ledger0, prev>>

\* LedgerPrereg with the ledger line left for later
LedgerPreregDeferred ==
    /\ pc = "ledger_prereg"
    /\ pc' = IF blind THEN "write_blind_map" ELSE "backtest_1"
    /\ UNCHANGED <<disk, runs, seed, blind, reveal, rng, pr_blob, labels, res,
                   bt, gen_calls, results, stdout, ret, ledger0, prev>>

\* append_ledger(out_dir, {"event": "prereg_written", ...})
LedgerPrereg ==
    /\ pc = "ledger_prereg"
    /\ disk' = append_ledger(disk,
                   [event |-> "prereg_written", file |-> "prereg.json",
                    sha256 |-> file_sha256(disk, "prereg.json"),
                    AEQ |-> pr_blob[1].AEQ, CID |-> pr_blob[1].CID], runs)
    /\ pc' = IF blind THEN "write_blind_map" ELSE "backtest_1"
    /\ UNCHANGED <<runs, seed, blind, reveal, rng, pr_blob, labels, res, bt,
                   gen_calls, results, stdout, ret, ledger0, prev>>

\* if blind: shuffle the conditions, label them, write blind_map.json
WriteBlindMap ==
    /\ pc = "write_blind_map"
    /\ LET sh == Shuffle(rng, pr_blob[1].conditions)
       IN  /\ rng' = sh.rng
           /\ labels' = BlindLabels(sh.list)
           /\ disk' = write_json(disk, "blind_map.json",
                          [seed |-> seed, map_real_to_blind |-> BlindLabels(sh.list)])
    /\ pc' = "ledger_blind_map"
    /\ UNCHANGED <<runs, seed, blind, reveal, pr_blob, res, bt, gen_calls,
                   results, stdout, ret, ledger0, prev>>

\* append_ledger(out_dir, {"event": "blind_map_written", ...})
LedgerBlindMap ==
    /\ pc = "ledger_blind_map"
    /\ disk' = append_ledger(disk,
                   [event |-> "blind_map_written", file |-> "blind_map.json",
                    sha256 |-> file_sha256(disk, "blind_map.json")], runs)
    /\ pc' = "backtest_1"
    /\ UNCHANGED <<runs, seed, blind, reveal, rng, pr_blob, labels, res, bt,
                   gen_calls, results, stdout, ret, ledger0, prev>>

BacktestPc(k) == <<"backtest_1", "backtest_2", "backtest_3">>[k]

AfterBacktest(k) == <<"backtest_2", "backtest_3", "write_results">>[k]

\* the k-th of base, ablt, neg = backtest(pr, random.Random(seed + k), mode)
RunBacktest(k) ==
    /\ pc = BacktestPc(k)
    /\ LET b == backtest(ConditionRng(rng, seed, k), Conditions[k])
       IN  /\ res' = [res EXCEPT ![Conditions[k]] = <<b.result>>]
           /\ bt' = [bt EXCEPT ![Conditions[k]] = <<b.trace>>]
    /\ gen_calls' = gen_calls + 1
    /\ pc' = AfterBacktest(k)
    /\ UNCHANGED <<disk, runs, seed, blind, reveal, rng, pr_blob, labels,
                   results, stdout, ret, ledger0, prev>>

\* the results object, from the three backtests
Results ==
    LET base == res["baseline"][1]
        ablt == res["ablation"][1]
        neg  == res["negative_control"][1]
        g    == Gates(base.sharpe, ablt.sharpe, neg.sharpe)
    IN  [AEQ |-> pr_blob[1].AEQ, CID |-> pr_blob[1].CID, seed |-> seed,
         blind |-> blind, metrics |-> Metrics(labels, base, ablt, neg),
         gates |-> g.gates, overall_pass |-> g.overall]

\* the gates, overall and results are computed; write_json(results_path, results)
WriteResults ==
    /\ pc = "write_results"
    /\ results' = <<Results>>
    /\ disk' = write_json(disk, "results.json", Results)
    /\ pc' = "ledger_results"
    /\ UNCHANGED <<runs, seed, blind, reveal, rng, pr_blob, labels, res, bt,
                   gen_calls, stdout, ret, ledger0, prev>>

\* append_ledger(out_dir, {"event": "results_written", ...})
LedgerResults ==
    /\ pc = "ledger_results"
    /\ disk' = append_ledger(disk,
                   [event |-> "results_written", file |-> "results.json",
                    sha256 |-> file_sha256(disk, "results.json"),
                    overall_pass |-> results[1].overall_pass], runs)
    /\ pc' = "write_manifest"
    /\ UNCHANGED <<runs, seed, blind, reveal, rng, pr_blob, labels, res, bt,
                   gen_calls, results, stdout, ret, ledger0, prev>>

\* the manifest object
Manifest ==
    [AEQ |-> pr_blob[1].AEQ, CID |-> pr_blob[1].CID,
     files |-> [f \in ManifestNames(blind) |-> file_sha256(disk, f)]]

\* WriteManifest with a ledger line for the manifest itself
WriteManifestLogged ==
    /\ pc = "write_manifest"
    /\ disk' = append_ledger(write_json(disk, "artifacts_manifest.json", Manifest),
                   [event |-> "manifest_written", file |-> "artifacts_manifest.json",
                    sha256 |-> sha256_hex(<<Manifest>>)], runs)
    /\ pc' = "print"
    /\ UNCHANGED <<runs, seed, blind, reveal, rng, pr_blob, labels, res, bt,
                   gen_calls, results, stdout, ret, ledger0, prev>>

\* write_json(out_dir / "artifacts_manifest.json", manifest)
WriteManifest ==
    /\ pc = "write_manifest"
    /\ disk' = write_json(disk, "artifacts_manifest.json", Manifest)
    /\ pc' = "print"
    /\ UNCHANGED <<runs, seed, blind, reveal, rng, pr_blob, labels, res, bt,
                   gen_calls, results, stdout, ret, ledger0, prev>>

\* the blind map is printed if asked for, the results are printed, and
\* run_once returns; main returns what it returned
PrintAndReturn ==
    /\ pc = "print"
    /\ stdout' =
         (IF reveal /\ blind /\ Exists(disk, "blind_map.json")
          THEN <<"BLIND MAP (reveal):", disk["blind_map.json"]>>
          ELSE <<>>) \o <<results[1]>>
    /\ ret' = <<ExitStatus(results[1].overall_pass)>>
    /\ pc' = "done"
    /\ UNCHANGED <<disk, runs, seed, blind, reveal, rng, pr_blob, labels, res,
                   bt, gen_calls, results, ledger0, prev>>

Next ==
    \/ \E s \in Seeds, b \in BOOLEAN, r \in BOOLEAN : Start(s, b, r)
    \/ WritePrereg
    \/ LedgerPrereg
    \/ WriteBlindMap
    \/ LedgerBlindMap
    \/ \E k \in 1..3 : RunBacktest(k)
    \/ WriteResults
    \/ LedgerResults
    \/ WriteManifest
    \/ PrintAndReturn

Spec == Init /\ [][Next]_vars

(***************************************************************************)
(* The same run with synthetic metrics: each backtest returns a Sharpe     *)
(* value drawn from a set around the thresholds of the gates, so that      *)
(* every combination of passing and failing gates happens.                 *)
(***************************************************************************)
SyntheticSharpe(k) ==
    << {baseline_sharpe_min - 1, baseline_sharpe_min, baseline_sharpe_min + delta_min},
       {0, baseline_sharpe_min - delta_min, baseline_sharpe_min - delta_min + 1,
        baseline_sharpe_min},
       {-neg_sharpe_max, 0, neg_sharpe_max, neg_sharpe_max + 1} >>[k]

\* the k-th backtest returns a synthetic result
SyntheticBacktest(k) ==
    /\ pc = BacktestPc(k)
    /\ \E v \in SyntheticSharpe(k) :
          res' = [res EXCEPT ![Conditions[k]] =
                     <<[final_equity |-> One, sharpe |-> v, n_trades_approx |-> 0]>>]
    /\ gen_calls' = gen_calls + 1
    /\ pc' = AfterBacktest(k)
    /\ UNCHANGED <<disk, runs, seed, blind, reveal, rng, pr_blob, labels, bt,
                   results, stdout, ret, ledger0, prev>>

\* one run only
StartOnce(s, b, r) == runs = 0 /\ Start(s, b, r)

NextSynthetic ==
    \/ \E s \in Seeds, b \in BOOLEAN, r \in BOOLEAN : StartOnce(s, b, r)
    \/ WritePrereg
    \/ LedgerPrereg
    \/ WriteBlindMap
    \/ LedgerBlindMap
    \/ \E k \in 1..3 : SyntheticBacktest(k)
    \/ WriteResults
    \/ LedgerResults
    \/ WriteManifest
    \/ PrintAndReturn

SpecSynthetic == Init /\ [][NextSynthetic]_vars

(***************************************************************************)
(* Helpers of the properties.                                              *)
(***************************************************************************)
IsPrefix(a, b) == Len(a) <= Len(b) /\ SubSeq(b, 1, Len(a)) = a

Ledger == disk["ledger.ndjson"]

\* the events of the lines this run appended to the lines `lines`
RunEvents(lines, before) ==
    [i \in 1..(Len(lines) - Len(before)) |-> lines[Len(before) + i].json.event]

ExpectedEvents(blnd) ==
    <<"prereg_written">> \o (IF blnd THEN <<"blind_map_written">> ELSE <<>>)
        \o <<"results_written">>

AnyResult == \E c \in CondSet : res[c] # <<>>

\* this run's prereg.json is on disk and this run appended its ledger line
PreregPersisted ==
    /\ pr_blob # <<>>
    /\ disk["prereg.json"] = <<pr_blob[1]>>
    /\ \E i \in (Len(ledger0) + 1)..Len(Ledger) :
          /\ Ledger[i].json.event = "prereg_written"
          /\ Ledger[i].json.file = "prereg.json"
          /\ Ledger[i].json.sha256 = sha256_hex(<<pr_blob[1]>>)
          /\ Ledger[i].json.CID = pr_blob[1].CID

(***************************************************************************)
(* C1: whenever a backtest is about to be called or a result of one        *)
(* exists, this run's prereg.json is on disk and this run's prereg_written *)
(* line is in the ledger.                                                  *)
(***************************************************************************)
C1_PreregBeforeResults ==
    (AnyResult \/ pc \in {"backtest_1", "backtest_2", "backtest_3"}) => PreregPersisted

\* a second run, with another seed than the first, has its first result
C1_Witness ==
    /\ pc = "backtest_2"
    /\ res["baseline"] # <<>>
    /\ prev # <<>>
    /\ prev[1].seed # seed

(***************************************************************************)
(* C2: every step leaves the earlier ledger a prefix of the ledger, the    *)
(* events a run has appended are at every moment a prefix of               *)
(* prereg_written, blind_map_written (if and only if blind),               *)
(* results_written, and they are exactly these when the run returns.       *)
(***************************************************************************)
C2_LedgerAppendOnly ==
    [][/\ IsPrefix(Ledger, Ledger')
       /\ IsPrefix(ledger0', Ledger')
       /\ IsPrefix(RunEvents(Ledger', ledger0'), ExpectedEvents(blind'))
       /\ pc' = "done" => RunEvents(Ledger', ledger0') = ExpectedEvents(blind')]_vars

\* a blind run has returned, in a directory that held a ledger before it
C2_Witness ==
    /\ pc = "done"
    /\ blind
    /\ Len(ledger0) > 0
    /\ Len(Ledger) = Len(ledger0) + 3

(***************************************************************************)
(* C3: all the prereg_written lines of the ledger carry the same AEQ,      *)
(* whatever the seeds of the runs that wrote them (the parameters of       *)
(* Prereg are the same in every run).                                      *)
(***************************************************************************)
C3_AEQSeedIndependent ==
    \A i, j \in DOMAIN Ledger :
        (Ledger[i].json.event = "prereg_written" /\ Ledger[j].json.event = "prereg_written")
            => Ledger[i].json.AEQ = Ledger[j].json.AEQ

(***************************************************************************)
(* C4: when run_once has returned, artifacts_manifest.json lists exactly   *)
(* prereg.json, results.json, ledger.ndjson and, if blind, blind_map.json, *)
(* and the hash it records for each is the hash of that file on disk.      *)
(***************************************************************************)
C4_ManifestIntegrity ==
    pc = "done" =>
        /\ Exists(disk, "artifacts_manifest.json")
        /\ LET m == disk["artifacts_manifest.json"][1]
           IN  /\ DOMAIN m.files = ManifestNames(blind)
               /\ \A f \in DOMAIN m.files :
                     Exists(disk, f) /\ m.files[f] = sha256_hex(disk[f])
               /\ m.CID = pr_blob[1].CID

\* the second run in the directory has returned, and it was blind
C4_Witness ==
    /\ pc = "done"
    /\ blind
    /\ runs = 2
    /\ "blind_map.json" \in DOMAIN disk["artifacts_manifest.json"][1].files

(***************************************************************************)
(* C5: a run that has returned and the previous run, if they had the same  *)
(* seed, computed the same result for each real condition, the same delta, *)
(* the same gates, the same overall_pass and the same exit status,         *)
(* whatever their blind and reveal flags.                                  *)
(***************************************************************************)
C5_BlindingInvariance ==
    (pc = "done" /\ prev # <<>> /\ prev[1].seed = seed) =>
        LET p == prev[1]
            r == results[1]
        IN  /\ \A c \in CondSet :
                  r.metrics[labels[c]] = p.results.metrics[p.labels[c]]
            /\ r.metrics[DeltaKey] = p.results.metrics[DeltaKey]
            /\ r.gates = p.results.gates
            /\ r.overall_pass = p.results.overall_pass
            /\ r.AEQ = p.results.AEQ /\ r.CID = p.results.CID
            /\ r.blind = blind /\ p.results.blind = p.blind
            /\ ret[1] = p.ret
            /\ DOMAIN r.metrics =
                  (IF blind THEN {"C1", "C2", "C3"} ELSE CondSet) \cup {DeltaKey}

\* two runs of one seed have returned, one blind and one not, and the blind
\* one labelled some condition's result other than in the order of the
\* conditions
C5_Witness ==
    /\ pc = "done"
    /\ prev # <<>>
    /\ prev[1].seed = seed
    /\ prev[1].blind # blind
    /\ \E c \in CondSet :
          LET lab == IF blind THEN labels ELSE prev[1].labels
          IN  lab[c] # BlindLabel(CHOOSE k \in 1..3 : Conditions[k] = c)

(***************************************************************************)
(* C6: overall_pass is true exactly when the three pass flags are, each    *)
(* flag is its comparison (baseline Sharpe >= baseline_sharpe_min,         *)
(* baseline Sharpe - ablation Sharpe >= delta_min, negative-control        *)
(* Sharpe <= neg_sharpe_max), and each gate records its value and its      *)
(* threshold.                                                              *)
(***************************************************************************)
C6_GateLogic ==
    results # <<>> =>
        LET g      == results[1].gates
            base_s == res["baseline"][1].sharpe
            ablt_s == res["ablation"][1].sharpe
            neg_s  == res["negative_control"][1].sharpe
        IN  /\ DOMAIN g = {"baseline_sharpe_min", "delta_min", "neg_sharpe_max"}
            /\ g.baseline_sharpe_min.value = base_s
            /\ g.baseline_sharpe_min.min = 50
            /\ g.baseline_sharpe_min.pass = (base_s >= 50)
            /\ g.delta_min.value = base_s - ablt_s
            /\ g.delta_min.min = 30
            /\ g.delta_min.pass = (base_s - ablt_s >= 30)
            /\ g.neg_sharpe_max.value = neg_s
            /\ g.neg_sharpe_max.max = 25
            /\ g.neg_sharpe_max.pass = (neg_s <= 25)
            /\ results[1].overall_pass =
                  (g.baseline_sharpe_min.pass /\ g.delta_min.pass /\ g.neg_sharpe_max.pass)

\* the baseline Sharpe is just below its minimum and the other two gates pass:
\* that gate fails, alone, and overall_pass is false
C6_Witness ==
    /\ results # <<>>
    /\ res["baseline"][1].sharpe = 49
    /\ ~results[1].gates.baseline_sharpe_min.pass
    /\ results[1].gates.delta_min.pass
    /\ results[1].gates.neg_sharpe_max.pass
    /\ ~results[1].overall_pass

C8_ExitStatus ==
    /\ ret # <<>> => pc = "done"
    /\ pc = "done" =>
          LET last == Ledger[Len(Ledger)].json
              file == disk["results.json"]
          IN  /\ ret \in {<<0>>, <<2>>}
              /\ (ret = <<0>>) = results[1].overall_pass
              /\ file = <<results[1]>>
              /\ (ret = <<0>>) = file[1].overall_pass
              /\ last.event = "results_written"
              /\ last.file = "results.json"
              /\ last.sha256 = sha256_hex(file)
              /\ (ret = <<0>>) = last.overall_pass
              /\ Exists(disk, "artifacts_manifest.json")
              /\ disk["artifacts_manifest.json"][1].files["results.json"] = sha256_hex(file)
              /\ disk["artifacts_manifest.json"][1].files["ledger.ndjson"] = sha256_hex(Ledger)

\* a run whose gates did not all pass has returned 2
C8_Witness ==
    /\ pc = "done"
    /\ ret = <<2>>
    /\ ~results[1].overall_pass

(***************************************************************************)
(* C9, as claimed: when run_once has returned, gen_prices has been called  *)
(* once, and the three conditions have consumed the same price and return  *)
(* series.                                                                 *)
(***************************************************************************)
C9_SinglePriceSeries ==
    pc = "done" =>
        /\ gen_calls = 1
        /\ \A c, d \in CondSet :
              bt[c][1].prices = bt[d][1].prices /\ bt[c][1].rets = bt[d][1].rets

(***************************************************************************)
(* C9, amended: when run_once has returned, gen_prices has been called     *)
(* three times, once in each backtest; the k-th backtest generated its     *)
(* price series of n_days prices, starting at 100.0, from its own          *)
(* generator random.Random(seed + k), and consumed the returns of that     *)
(* series, one per day.                                                    *)
(***************************************************************************)
C9_PriceSeriesPerCondition ==
    pc = "done" =>
        /\ gen_calls = 3
        /\ \A k \in 1..3 :
              LET t == bt[Conditions[k]][1]
              IN  /\ t.rng0 = Random(seed + k)
                  /\ Len(t.prices) = n_days
                  /\ t.prices[1] = StartPrice
                  /\ Len(t.rets) = n_days - 1
                  /\ \A i \in 1..(n_days - 1) :
                        t.rets[i] = (t.prices[i + 1] * One) \div t.prices[i] - One
                  /\ Len(t.pnl) = Len(t.rets)

\* a run has returned whose three conditions ran on three different series
C9_Witness ==
    /\ pc = "done"
    /\ gen_calls = 3
    /\ bt["baseline"][1].prices # bt["ablation"][1].prices
    /\ bt["ablation"][1].prices # bt["negative_control"][1].prices
    /\ bt["baseline"][1].prices # bt["negative_control"][1].prices

(***************************************************************************)
(* C10, as claimed: on every day of every backtest the window holds at     *)
(* least one and at most 20 returns, exactly 20 from the day on which 20   *)
(* days of history are available, and ends at that day.                    *)
(***************************************************************************)
C10_WindowAtMost20 ==
    \A c \in CondSet :
        bt[c] # <<>> =>
            LET t == bt[c][1]
            IN  \A d \in 1..Len(t.wlen) :
                    /\ t.wlen[d] >= 1
                    /\ t.wlen[d] <= 20
                    /\ d >= 20 => t.wlen[d] = 20
                    /\ t.wstart[d] + t.wlen[d] = d

====
